---- MODULE Spec2Model ----
(***************************************************************************)
(* django_messages: the Message table, its inbox/outbox/trash managers,    *)
(* the compose/reply forms that fan a message out to one row per           *)
(* participant, and the request handlers of views.py.                      *)
(*                                                                         *)
(* The table is a function from primary keys to rows.  Each request        *)
(* handler runs inside one transaction (commit_on_success) and is one      *)
(* action.  datetime.datetime.now() is abstracted to the single non-null   *)
(* value Now: no handler compares or orders timestamps, only None / set    *)
(* is ever tested.  uuid.uuid4().hex is a thread id that no row carries.   *)
(* A request handler is an operator from the table and the request to the  *)
(* table it leaves and the status it answers; the actions apply the        *)
(* handlers to every request, and the properties about one request         *)
(* quantify over the requests that can be made in a reachable state.       *)
(***************************************************************************)
EXTENDS Integers, Sequences, FiniteSets

\* ---------------------------------------------------------------- bounds
NumUsers == 2
MaxRecipients == 2
MaxMessages == 4

Users == 1..NumUsers
Subjects == {"subj"}
Bodies == {"body"}
Methods == {"GET", "POST"}

\* ------------------------------------------------------- nullable values
None == 0
NoTime == "None"
Now == "now"

VARIABLES
    messages,   \* the messages_message table: pk -> row
    copyOf      \* history: pk -> pk of the sender's copy saved by the same form.save()

vars == <<messages, copyOf>>

\* ------------------------------------------------------------ helpers
SetMax(S) == IF S = {} THEN 0 ELSE CHOOSE x \in S : \A y \in S : y <= x

Range(s) == {s[i] : i \in 1..Len(s)}

\* Sequences of distinct users of length lo..hi.
DistinctSeqs(lo, hi) ==
    UNION {{s \in [1..n -> Users] : \A i, j \in 1..n : i # j => s[i] # s[j]} : n \in lo..hi}

\* cleaned_data['recipients']: the users the recipients field validated, each
\* once (a username__in query), in any order.  The empty list stands for a
\* form that does not validate (recipients is a required field).
RecipientLists == DistinctSeqs(1, MaxRecipients)
RecipientInputs == DistinctSeqs(0, MaxRecipients)

\* ------------------------------------------------------------ models.py
\* Message(...) with the field defaults of the model.
NewMessage ==
    [owner |-> None, to |-> <<>>, subject |-> "", body |-> "", sender |-> None,
     recipient |-> None, thread |-> None, parent_msg |-> None, sent_at |-> NoTime,
     unread |-> TRUE, read_at |-> NoTime, replied_at |-> NoTime,
     deleted |-> FALSE, deleted_at |-> NoTime]

is_unread(m) == m.read_at = NoTime

undelete_mutant(m) == [m EXCEPT !.deleted = FALSE]
undelete(m) == [m EXCEPT !.deleted = FALSE, !.deleted_at = NoTime]

mark_read_mutant(m) == [m EXCEPT !.read_at = Now]
mark_read(m) == [m EXCEPT !.unread = FALSE, !.read_at = Now]

mark_unread(m) == [m EXCEPT !.unread = TRUE, !.read_at = NoTime]

move_to_trash(m) == [m EXCEPT !.deleted = TRUE, !.deleted_at = Now]

\* MessageQueryset.unread
unread(msgs, qs) == {pk \in qs : msgs[pk].unread = TRUE}

\* Message.objects: BaseMessageManager.get_query_set, every row.
Objects(msgs) == DOMAIN msgs

InboxQuerySet(msgs) == {pk \in Objects(msgs) : msgs[pk].deleted = FALSE}
InboxForUser_mutant(msgs, user) ==
    {pk \in InboxQuerySet(msgs) : msgs[pk].recipient = user}
InboxForUser(msgs, user) ==
    {pk \in InboxQuerySet(msgs) : msgs[pk].owner = user /\ msgs[pk].recipient = user}

OutboxQuerySet(msgs) == {pk \in Objects(msgs) : msgs[pk].deleted = FALSE}
OutboxForUser(msgs, user) ==
    {pk \in OutboxQuerySet(msgs) : msgs[pk].owner = user /\ msgs[pk].sender = user}

TrashQuerySet(msgs) == {pk \in Objects(msgs) : msgs[pk].deleted = TRUE}
TrashForUser(msgs, user) ==
    {pk \in TrashQuerySet(msgs) : msgs[pk].owner = user}

inbox_count_for(msgs, user) == Cardinality(unread(msgs, InboxForUser(msgs, user)))

\* Model.save() of a new instance: the table hands out the next primary key.
NextPk(msgs) == SetMax(DOMAIN msgs) + 1

\* Model.save() of new rows, in order.
Insert(msgs, rows) ==
    LET n == NextPk(msgs)
    IN [pk \in DOMAIN msgs \cup n..(n + Len(rows) - 1) |->
            IF pk \in DOMAIN msgs THEN msgs[pk] ELSE rows[pk - n + 1]]

\* Model.save() of an existing instance.
Update(msgs, pk, row) == [msgs EXCEPT ![pk] = row]

\* ------------------------------------------------------------- forms.py
\* uuid.uuid4().hex: an id no existing row carries.
Uuid4(msgs) == SetMax({msgs[pk].thread : pk \in DOMAIN msgs}) + 1

MessageForm_create_recipient_message(sender, recipient, message) ==
    [NewMessage EXCEPT
        !.owner = recipient,
        !.sender = sender,
        !.to = <<recipient>>,
        !.recipient = recipient,
        !.subject = message.subject,
        !.body = message.body,
        !.thread = message.thread,
        !.sent_at = message.sent_at]

MessageForm_get_thread_mutant(msgs, message) == 1
MessageForm_get_thread(msgs, message) ==
    IF message.thread # None THEN message.thread ELSE Uuid4(msgs)

\* The recipients the loop of MessageForm.save clones the message for.
CloneRecipients_mutant(sender, recipients) == recipients
CloneRecipients(sender, recipients) == SelectSeq(recipients, LAMBDA r : r # sender)

\* The sender's copy built by MessageForm.save (before commit).
MessageForm_instance(sender, recipients, subject, body, thread) ==
    [NewMessage EXCEPT
        !.subject = subject,
        !.body = body,
        !.sender = sender,
        !.owner = sender,
        !.recipient = recipients[1],
        !.thread = thread,
        !.unread = FALSE,
        !.sent_at = Now,
        !.to = recipients]

\* MessageForm.save(commit=True) of a ComposeForm: <<instance, message_list>>.
MessageForm_save(msgs, sender, recipients, subject, body) ==
    LET thread == MessageForm_get_thread(msgs, NewMessage)
        instance == MessageForm_instance(sender, recipients, subject, body, thread)
        rs == CloneRecipients(sender, recipients)
        message_list ==
            [i \in 1..Len(rs) |-> MessageForm_create_recipient_message(sender, rs[i], instance)]
    IN <<instance, message_list>>

\* Message.objects.get(owner=, sender=, recipient=, thread=): the matching rows.
ParentCandidates(msgs, owner, sender, recipient, thread) ==
    {pk \in Objects(msgs) :
        /\ msgs[pk].owner = owner
        /\ msgs[pk].sender = sender
        /\ msgs[pk].recipient = recipient
        /\ msgs[pk].thread = thread}

ReplyForm_create_recipient_message(msgs, sender, recipient, message) ==
    LET msg == [MessageForm_create_recipient_message(sender, recipient, message)
                    EXCEPT !.replied_at = Now]
        found == ParentCandidates(msgs, recipient, message.recipient,
                                  message.sender, message.thread)
    IN IF Cardinality(found) = 1
       THEN [msg EXCEPT !.parent_msg = CHOOSE pk \in found : TRUE]
       ELSE msg  \* DoesNotExist, MultipleObjectsReturned: pass

ReplyForm_get_thread_mutant(msgs, parent_message) == Uuid4(msgs)
ReplyForm_get_thread(msgs, parent_message) == parent_message.thread

\* ReplyForm.save(commit=True): <<instance, message_list>>; parent is the pk
\* of self.parent_message.
ReplyForm_save(msgs, sender, parent, recipients, subject, body) ==
    LET thread == ReplyForm_get_thread(msgs, msgs[parent])
        base == MessageForm_instance(sender, recipients, subject, body, thread)
        rs == CloneRecipients(sender, recipients)
        message_list ==
            [i \in 1..Len(rs) |->
                ReplyForm_create_recipient_message(msgs, sender, rs[i], base)]
        instance == [base EXCEPT !.replied_at = Now, !.parent_msg = parent]
    IN <<instance, message_list>>

\* instance.save(); for msg in message_list: msg.save()
Commit(msgs, saved) == Insert(msgs, <<saved[1]>> \o saved[2])

\* ------------------------------------------------------------- views.py
\* get_object_or_404(Message, pk=message_id, owner=request.user) finds a row.
Found_mutant(msgs, message_id, user) == message_id \in DOMAIN msgs
Found(msgs, message_id, user) ==
    message_id \in DOMAIN msgs /\ msgs[message_id].owner = user

\* What a handler leaves behind: the table and the response's status code.
Outcome(msgs, status) == [messages |-> msgs, status |-> status]

\* form.is_valid(): the recipients field validated to a non-empty user list.
is_valid(recipients) == recipients # <<>>

compose(msgs, user, method, recipients, subject, body) ==
    IF method = "POST" /\ is_valid(recipients)
    THEN Outcome(Commit(msgs, MessageForm_save(msgs, user, recipients, subject, body)), 302)
    ELSE Outcome(msgs, 200)

reply(msgs, user, message_id, method, recipients, subject, body) ==
    IF ~Found(msgs, message_id, user)
    THEN Outcome(msgs, 404)
    ELSE IF method = "POST" /\ is_valid(recipients)
    THEN Outcome(Commit(msgs, ReplyForm_save(msgs, user, message_id, recipients,
                                             subject, body)), 302)
    ELSE Outcome(msgs, 200)

delete_mutant(msgs, user, message_id) ==
    IF ~Found(msgs, message_id, user)
    THEN Outcome(msgs, 404)
    ELSE Outcome([pk \in DOMAIN msgs \ {message_id} |-> msgs[pk]], 302)
delete(msgs, user, message_id) ==
    IF ~Found(msgs, message_id, user)
    THEN Outcome(msgs, 404)
    ELSE Outcome(Update(msgs, message_id, move_to_trash(msgs[message_id])), 302)

undelete_view(msgs, user, message_id) ==
    IF ~Found(msgs, message_id, user)
    THEN Outcome(msgs, 404)
    ELSE Outcome(Update(msgs, message_id, undelete(msgs[message_id])), 302)

view(msgs, user, message_id) ==
    IF ~Found(msgs, message_id, user)
    THEN Outcome(msgs, 404)
    ELSE IF is_unread(msgs[message_id])
    THEN Outcome(Update(msgs, message_id, mark_read(msgs[message_id])), 200)
    ELSE Outcome(msgs, 200)

\* ------------------------------------------------------------- requests
\* The message ids a request may name: every row, and one that does not exist.
MessageIds(msgs) == DOMAIN msgs \cup {NextPk(msgs)}

\* Room in the table for the rows a handler saved.
Fits(out) == Cardinality(DOMAIN out.messages) <= MaxMessages

\* A form that saves needs room for at least the sender's copy.
Room(msgs, method, recipients) ==
    (method = "POST" /\ is_valid(recipients)) => Cardinality(DOMAIN msgs) < MaxMessages

\* history: every row a handler saves is a copy of the first one it saves.
Copies(msgs, out) ==
    [pk \in DOMAIN out.messages |-> IF pk \in DOMAIN msgs THEN copyOf[pk] ELSE NextPk(msgs)]

Handled(msgs, out) ==
    /\ Fits(out)
    /\ messages' = out.messages
    /\ copyOf' = Copies(msgs, out)

Init ==
    /\ messages = <<>>
    /\ copyOf = <<>>

\* A GET carries no form data.  reply raises its 404 (views.py:107) before it
\* reads request.method, so a reply naming a row the user does not own is
\* enumerated once; C4 quantifies over its POSTs as well.
Compose ==
    \E user \in Users, method \in Methods, recipients \in RecipientInputs,
       subject \in Subjects, body \in Bodies :
        /\ method = "GET" => recipients = <<>>
        /\ Room(messages, method, recipients)
        /\ LET out == compose(messages, user, method, recipients, subject, body)
           IN Handled(messages, out)

Reply ==
    \E user \in Users, message_id \in MessageIds(messages), method \in Methods,
       recipients \in RecipientInputs, subject \in Subjects, body \in Bodies :
        /\ method = "GET" => recipients = <<>>
        /\ ~Found(messages, message_id, user) => method = "GET"
        /\ Room(messages, method, recipients)
        /\ LET out == reply(messages, user, message_id, method, recipients, subject, body)
           IN Handled(messages, out)

Delete ==
    \E user \in Users, message_id \in MessageIds(messages) :
        LET out == delete(messages, user, message_id)
        IN Handled(messages, out)

Undelete ==
    \E user \in Users, message_id \in MessageIds(messages) :
        LET out == undelete_view(messages, user, message_id)
        IN Handled(messages, out)

View ==
    \E user \in Users, message_id \in MessageIds(messages) :
        LET out == view(messages, user, message_id)
        IN Handled(messages, out)

Next == Compose \/ Reply \/ Delete \/ Undelete \/ View

Spec == Init /\ [][Next]_vars

\* ------------------------------------------------------------ requests made
\* The rows a handler added.
NewRows(msgs, out) == DOMAIN out.messages \ DOMAIN msgs

\* P(sender, recipients, parent, out) holds of every committed send that can
\* be made now: the sender, the validated recipient list, the message replied
\* to (None for a compose) and what the handler leaves.
AllSends(msgs, P(_, _, _, _)) ==
    \A recipients \in RecipientLists, subject \in Subjects, body \in Bodies :
        /\ \A user \in Users :
             P(user, recipients, None,
               compose(msgs, user, "POST", recipients, subject, body))
        /\ \A pk \in DOMAIN msgs :
             P(msgs[pk].owner, recipients, pk,
               reply(msgs, msgs[pk].owner, pk, "POST", recipients, subject, body))

\* P holds of what every request by user that names message_id leaves behind.
AllNaming(msgs, user, message_id, P(_)) ==
    /\ \A method \in Methods, recipients \in RecipientInputs,
          subject \in Subjects, body \in Bodies :
            (method = "GET" => recipients = <<>>) =>
                P(reply(msgs, user, message_id, method, recipients, subject, body))
    /\ P(delete(msgs, user, message_id))
    /\ P(undelete_view(msgs, user, message_id))
    /\ P(view(msgs, user, message_id))

\* P holds of what every request user can make now leaves behind.
AllBy(msgs, user, P(_)) ==
    /\ \A method \in Methods, recipients \in RecipientInputs,
          subject \in Subjects, body \in Bodies :
            (method = "GET" => recipients = <<>>) =>
                P(compose(msgs, user, method, recipients, subject, body))
    /\ \A message_id \in MessageIds(msgs) : AllNaming(msgs, user, message_id, P)

\* The compose that started the conversation a row belongs to: the sender's
\* copy of its send, followed up the replies.
RECURSIVE Root(_, _)
Root(msgs, pk) ==
    LET i == copyOf[pk]
    IN IF msgs[i].parent_msg = None THEN i ELSE Root(msgs, msgs[i].parent_msg)

\* ------------------------------------------------------------------ C1
SameThread(msgs, rows) == \A i, j \in rows : msgs[i].thread = msgs[j].thread

\* The sends committed so far, each named by the pk of its sender's copy; the
\* rows one of them saved; and its validated recipient list, which
\* MessageForm.save stores in the to field of the sender's copy.
CommittedSends == {i \in DOMAIN messages : copyOf[i] = i}
RowsOfSend(i) == {j \in DOMAIN messages : copyOf[j] = i}
RecipientsOfSend(i) == messages[i].to

\* C1 (as claimed): every committed send with a validated list of N recipients
\* created exactly N+1 rows, one owned by the sender and one owned by each
\* recipient, all with the same thread id, also when the list holds the sender.
C1_FanOutNPlusOne ==
    \A i \in CommittedSends :
        LET new == RowsOfSend(i)
            recipients == RecipientsOfSend(i)
        IN /\ Cardinality(new) = Len(recipients) + 1
           /\ messages[i].owner = messages[i].sender
           /\ \A k \in 1..Len(recipients) :
                \E j \in new \ {i} : messages[j].owner = recipients[k]
           /\ SameThread(messages, new)

\* C1 (amended): every committed send creates exactly one row owned by the
\* sender and one row owned by each recipient other than the sender, and
\* nothing else: N+1 rows when the sender is not in the list, N rows when it
\* is; all the rows carry the same thread id.  Stated of the sends committed
\* so far and of every send that can be made next.
C1_FanOutSkipsSender ==
    LET SkipsSender(sender, recipients, new, after) ==
            LET owners == {sender} \cup Range(recipients)
                others == SelectSeq(recipients, LAMBDA r : r # sender)
            IN /\ Cardinality(new) = Len(others) + 1
               /\ \A j \in new : after[j].owner \in owners
               /\ \A u \in owners : Cardinality({j \in new : after[j].owner = u}) = 1
               /\ SameThread(after, new)
        Next1(sender, recipients, parent, out) ==
            /\ out.status = 302
            /\ SkipsSender(sender, recipients, NewRows(messages, out), out.messages)
    IN /\ \A i \in CommittedSends :
            SkipsSender(messages[i].sender, RecipientsOfSend(i), RowsOfSend(i), messages)
       /\ AllSends(messages, Next1)

\* A send to two recipients, the sender among them, was committed: two rows.
C1_Witness ==
    \E i \in DOMAIN messages :
        /\ i \in CommittedSends
        /\ Len(RecipientsOfSend(i)) = 2
        /\ messages[i].sender \in Range(RecipientsOfSend(i))
        /\ Cardinality(RowsOfSend(i)) = 2

\* ------------------------------------------------------------------ C2
\* C2: no request hard-deletes: every row of the table is still a row after
\* any step, and a step that puts a row in the trash changes only its
\* deleted flag and deleted_at.
C2_NeverHardDeleted ==
    [][\A pk \in DOMAIN messages :
          /\ pk \in DOMAIN messages'
          /\ (~messages[pk].deleted /\ messages'[pk].deleted) =>
                /\ messages'[pk].deleted_at # NoTime
                /\ messages'[pk] = [messages[pk] EXCEPT
                                       !.deleted = TRUE,
                                       !.deleted_at = messages'[pk].deleted_at]]_vars

\* A row was deleted by its owner, and a send was committed after it.
C2_Witness ==
    \E pk, later \in DOMAIN messages :
        /\ messages[pk].deleted
        /\ messages[pk].deleted_at = Now
        /\ later > pk
        /\ messages[later].parent_msg = pk

\* ------------------------------------------------------------------ C3
\* C3: for every user the inbox is the non-deleted rows owned by and addressed
\* to the user, the outbox the non-deleted rows owned and sent by the user, the
\* trash the deleted rows owned by the user; every row is in its owner's trash
\* iff it is deleted, otherwise in its owner's inbox or outbox, and in no view
\* of another user.
C3_ViewsClassify ==
    /\ \A u \in Users :
        /\ InboxForUser(messages, u) =
             {pk \in DOMAIN messages : /\ ~messages[pk].deleted
                                       /\ messages[pk].owner = u
                                       /\ messages[pk].recipient = u}
        /\ OutboxForUser(messages, u) =
             {pk \in DOMAIN messages : /\ ~messages[pk].deleted
                                       /\ messages[pk].owner = u
                                       /\ messages[pk].sender = u}
        /\ TrashForUser(messages, u) =
             {pk \in DOMAIN messages : messages[pk].deleted /\ messages[pk].owner = u}
    /\ \A pk \in DOMAIN messages :
        LET o == messages[pk].owner
            boxes == InboxForUser(messages, o) \cup OutboxForUser(messages, o)
        IN /\ pk \in TrashForUser(messages, o) <=> messages[pk].deleted
           /\ pk \in boxes <=> ~messages[pk].deleted
           /\ \A v \in Users \ {o} :
                pk \notin InboxForUser(messages, v) \cup OutboxForUser(messages, v)
                            \cup TrashForUser(messages, v)

\* A user has one row in the inbox only and one in the outbox only, and
\* another user has a row in the trash only.
C3_Witness ==
    \E u, v \in Users, a, b, c \in DOMAIN messages :
        /\ u # v
        /\ a \in InboxForUser(messages, u) \ OutboxForUser(messages, u)
        /\ b \in OutboxForUser(messages, u) \ InboxForUser(messages, u)
        /\ c \in TrashForUser(messages, v)
        /\ c \notin InboxForUser(messages, v) \cup OutboxForUser(messages, v)

\* ------------------------------------------------------------------ C4
\* C4: a view, reply, delete or undelete request by u that names a message id
\* whose row u does not own answers 404 and leaves the table as it is; and no
\* request by u changes or removes a row another user owns.
C4_CrossUserIsolation ==
    \A u \in Users :
        LET NotFound(out) == out = Outcome(messages, 404)
            OwnRowsOnly(out) ==
                \A pk \in DOMAIN messages :
                    /\ pk \in DOMAIN out.messages
                    /\ out.messages[pk] # messages[pk] => messages[pk].owner = u
        IN /\ \A message_id \in MessageIds(messages) :
                ~(message_id \in DOMAIN messages /\ messages[message_id].owner = u) =>
                    AllNaming(messages, u, message_id, NotFound)
           /\ AllBy(messages, u, OwnRowsOnly)

\* Another user's row is there, unread and not deleted, so that a view, a
\* delete or a reply would write; the request naming it answers 404.
C4_Witness ==
    \E u \in Users, pk \in DOMAIN messages :
        /\ messages[pk].owner # u
        /\ is_unread(messages[pk])
        /\ ~messages[pk].deleted
        /\ view(messages, u, pk).status = 404
        /\ delete(messages, u, pk).status = 404
        /\ view(messages, messages[pk].owner, pk).status = 200

\* ------------------------------------------------------------------ C5
\* The recipient's own copy, unread by the flag and by read_at.
UnreadCopyOf(msgs, u, pk) ==
    /\ Found(msgs, pk, u)
    /\ msgs[pk].recipient = u
    /\ msgs[pk].unread
    /\ is_unread(msgs[pk])

\* The view of pk by u marks the row read, touches no other row, and a second
\* view changes nothing.
ViewMarksRead(msgs, u, pk) ==
    LET out == view(msgs, u, pk)
        after == out.messages
    IN /\ out.status = 200
       /\ DOMAIN after = DOMAIN msgs
       /\ after[pk].read_at # NoTime
       /\ after[pk].unread = FALSE
       /\ \A other \in DOMAIN msgs \ {pk} : after[other] = msgs[other]
       /\ view(after, u, pk) = Outcome(after, 200)

C6_TrashRoundTrip ==
    \A u \in Users, pk \in DOMAIN messages :
        (Found(messages, pk, u) /\ ~messages[pk].deleted) =>
            LET trashed == delete(messages, u, pk)
                back == undelete_view(trashed.messages, u, pk)
            IN /\ trashed.status = 302
               /\ back.status = 302
               /\ trashed.messages[pk].deleted
               /\ pk \in TrashForUser(trashed.messages, u)
               /\ \A v \in Users :
                    /\ pk \notin InboxForUser(trashed.messages, v)
                    /\ pk \notin OutboxForUser(trashed.messages, v)
                    /\ v # u => pk \notin TrashForUser(trashed.messages, v)
               /\ back.messages[pk].deleted = FALSE
               /\ back.messages[pk].deleted_at = NoTime
               /\ back.messages = messages
               /\ pk \notin TrashForUser(back.messages, u)

\* A read reply that is owned by its recipient and not deleted: the row the
\* round trip is made on has every field set.
C6_Witness ==
    \E u \in Users, pk \in DOMAIN messages :
        /\ Found(messages, pk, u)
        /\ ~messages[pk].deleted
        /\ messages[pk].read_at = Now
        /\ messages[pk].parent_msg # None
        /\ messages[pk].replied_at = Now
        /\ pk \in InboxForUser(messages, u)
        /\ pk \in TrashForUser(delete(messages, u, pk).messages, u)
        /\ undelete_view(delete(messages, u, pk).messages, u, pk).messages = messages

\* ------------------------------------------------------------------ C7
Threads(msgs) == {msgs[pk].thread : pk \in DOMAIN msgs}

\* C7: the rows of a compose get one thread id that no earlier row carries;
\* the rows of a reply get the thread id of the message replied to; so two
\* rows share a thread id only if they descend from the same compose.
C7_ThreadAssignment ==
    LET Threaded(sender, recipients, parent, out) ==
            LET new == NewRows(messages, out)
                after == out.messages
            IN /\ new # {}
               /\ \A i \in new :
                    IF parent = None
                    THEN after[i].thread \notin Threads(messages)
                    ELSE after[i].thread = messages[parent].thread
               /\ SameThread(after, new)
    IN /\ AllSends(messages, Threaded)
       /\ \A p, q \in DOMAIN messages :
            messages[p].thread = messages[q].thread
                => Root(messages, p) = Root(messages, q)

\* Two conversations, one of them with a reply.
C7_Witness ==
    \E p, q, r \in DOMAIN messages :
        /\ messages[p].thread # messages[q].thread
        /\ messages[r].parent_msg = p
        /\ messages[r].thread = messages[p].thread
        /\ Root(messages, q) # Root(messages, p)

\* ------------------------------------------------------------------ C8
\* C8: in every reply the replier's copy has parent_msg = the message replied
\* to, and the copy made for recipient r has parent_msg = r's own copy of the
\* message replied to, whenever r has one.
C8_ParentPerRecipient ==
    \A m \in DOMAIN messages :
        LET i == copyOf[m]
            p == messages[i].parent_msg
        IN p # None =>
            /\ messages[i].owner = messages[p].owner
            /\ \A c \in DOMAIN messages :
                 (m # i /\ copyOf[c] = copyOf[p] /\ messages[c].owner = messages[m].owner)
                    => messages[m].parent_msg = c

\* ------------------------------------------------------------------ C9
\* C9: every row has unread = TRUE iff read_at is empty.
C9_UnreadNotionsAgree ==
    \A pk \in DOMAIN messages : messages[pk].unread <=> is_unread(messages[pk])

\* ----------------------------------------------------------------- C10
\* C10: every row's owner is its sender or its recipient, and a row's
\* parent_msg, when set, is a row of the same owner and the same thread.
C10_OwnersCopyStructure ==
    \A pk \in DOMAIN messages :
        LET m == messages[pk]
        IN /\ m.owner \in {m.sender, m.recipient}
           /\ m.parent_msg # None =>
                /\ m.parent_msg \in DOMAIN messages
                /\ messages[m.parent_msg].owner = m.owner
                /\ messages[m.parent_msg].thread = m.thread

\* A reply's copy in its recipient's mailbox points at the recipient's copy of
\* the message answered.
C10_Witness ==
    \E pk \in DOMAIN messages :
        /\ messages[pk].owner # messages[pk].sender
        /\ messages[pk].parent_msg # None
        /\ copyOf[pk] # pk
        /\ messages[copyOf[pk]].parent_msg # messages[pk].parent_msg

====
